---- MODULE Spec2Model ----
(***************************************************************************)
(* A model of backend/app/services/hybrid_search.py: the extraction        *)
(* payload normalizer (ExtractionFormat.flat_entities) and one call of     *)
(* HybridSearchService.search with its three stages (_extract_entities,    *)
(* _qdrant_match_entities, _neo4j_get_graph) and the context assembly.     *)
(*                                                                         *)
(* Strings are sequences of tokens: a token is one character of an input   *)
(* string (" " is the whitespace character) or one fixed fragment of a     *)
(* string literal of the source.  The empty string is << >>, string        *)
(* concatenation is \o, and Python's truth test of a string is # << >>.    *)
(* The source's Chinese literals are written in ASCII:                     *)
(*   "NO_ENTITY"        line 133   (the no-entity graph_context)           *)
(*   "NO_RELATION_INFO" line 224   (the zero-record graph_context)         *)
(*   "ENTITIES: "       line 145   (head of the entity line)               *)
(*   "GRAPH_RELATIONS:" line 147   (head of the relations section)         *)
(* and those of core/nodes/retrieval.py and core/nodes/generation.py:      *)
(*   "RETRIEVAL_UNAVAILABLE" retrieval.py line 27  (the failure context)   *)
(*   "APOLOGY"               generation.py line 59 (the failure answer)    *)
(*   "SYSTEM_ERROR"          generation.py line 60 (the failure message)   *)
(*                                                                         *)
(* Three further specifications share the module: the normalizer on its    *)
(* own (SpecNorm), two search calls in flight on one service instance      *)
(* (SpecCalls), and the conversation graph of core/graph.py run turn after *)
(* turn on one thread (SpecGraph, FairSpecGraph).                          *)
(***************************************************************************)
EXTENDS Integers, Sequences, FiniteSets, TLC

VARIABLES
    pc,             \* position of the search call (or of the normalizer run)
    top_k,          \* search's parameter top_k
    raw,            \* what the extraction chain returned, while it is in scope
    entities,       \* search's local `entities`
    results_groups, \* the matcher's gathered lookups: each Pending or its outcome
    matched_entities, \* search's local `matched_entities`
    records,        \* the graph store's response to the query (NoValue before it)
    graph_context,  \* search's local `graph_context`
    ret,            \* the value search returned (NoValue before it returns)
    lookupLog,      \* the entity of every vector lookup issued, in order
    graphLog,       \* the names parameter of every graph query issued, in order
    extractLog,     \* how the extraction ended: "none" | "failed" | "raised" | "ok"
    lookupStat,     \* [failed, found]: lookups that failed / returned a neighbour
    calls,          \* the frames of the search calls in flight on one service instance
    service,        \* the module's handle hybrid_search_service: "ok" | "none"
    node,           \* position of the conversation graph: "idle" | "retrieve" | "generate"
    turn,           \* number of turns started on the thread
    state,          \* the AgentState values the checkpointer keeps for the thread
    trace           \* what happened in the current turn (see NewTrace)

searchVars == <<pc, top_k, raw, entities, results_groups, matched_entities, records,
                graph_context, ret, lookupLog, graphLog, extractLog, lookupStat>>

graphVars == <<service, node, turn, state, trace>>

vars == <<searchVars, calls, graphVars>>

----------------------------------------------------------------------------
(* Bounds of the model *)

\* longest input string of the normalizer's exhaustive domain
MaxStrLen == 2
\* longest item list of the normalizer's exhaustive domain
MaxItems == 2
\* most categories of a category map, each holding at most one item
MaxCats == 2
\* scores of the index neighbours are 1..MaxScore (a scale of the float score)
MaxScore == 2
\* most records of one graph response
MaxRecords == 2
\* most turns of one conversation thread
MaxTurns == 3

(* Program constants *)

\* entities[:3], matched_entities[:3]
FanOut == 3
\* asimilarity_search_with_score(entity, k=2)
K == 2
\* search(self, query, top_k: int = 5)
DefaultTopK == 5

----------------------------------------------------------------------------
(* Strings *)

SeqsUpTo(S, n) == UNION {[1..k -> S] : k \in 0..n}

RECURSIVE LStrip(_)
LStrip(s) == IF s = <<>> THEN s
             ELSE IF Head(s) = " " THEN LStrip(Tail(s)) ELSE s

RECURSIVE RStrip(_)
RStrip(s) == IF s = <<>> THEN s
             ELSE IF s[Len(s)] = " " THEN RStrip(SubSeq(s, 1, Len(s) - 1)) ELSE s

\* str.strip()
strip(s) == RStrip(LStrip(s))

\* sep.join(parts)
RECURSIVE join(_, _)
join(sep, parts) ==
    IF parts = <<>> THEN <<>>
    ELSE IF Len(parts) = 1 THEN parts[1]
    ELSE parts[1] \o sep \o join(sep, Tail(parts))

\* s[:n] of Python, for every integer n (a negative n counts from the end)
Slice(s, n) ==
    IF n >= 0 THEN SubSeq(s, 1, IF n < Len(s) THEN n ELSE Len(s))
    ELSE SubSeq(s, 1, Len(s) + n)

----------------------------------------------------------------------------
(* ExtractionFormat.flat_entities *)

\* A value of an item's "name"/"entity" key.
Absent == [t |-> "absent"]
NoneVal == [t |-> "none"]
NumVal == [t |-> "num"]
StrVal(s) == [t |-> "str", v |-> s]

StrItem(s) == [t |-> "str", v |-> s]
DictItem(n, e) == [t |-> "dict", name |-> n, entity |-> e]
OtherItem == [t |-> "other"]

ListPayload(items) == [shape |-> "list", items |-> items]
MapPayload(cats) == [shape |-> "dict", cats |-> cats]
OtherPayload == [shape |-> "other"]
CatList(items) == [t |-> "list", items |-> items]
CatOther == [t |-> "other"]

\* d.get(key, "")
DictGet(f) == IF f.t = "absent" THEN StrVal(<<>>) ELSE f

\* Python's truth value of a field value (NumVal is a non-zero number)
Truthy(f) == f.t = "num" \/ (f.t = "str" /\ f.v # <<>>)

\* item.get("name", "") or item.get("entity", "")
NameOf(item) ==
    LET n == DictGet(item.name)
    IN  IF Truthy(n) THEN n ELSE DictGet(item.entity)

\* the names a list of items appends, in order (lines 30-34 and 42-46):
\* a string as it is, a dict's name, nothing for anything else
RECURSIVE CollectNames(_)
CollectNames(items) ==
    IF items = <<>> THEN <<>>
    ELSE LET it == Head(items)
             one == IF it.t = "str" THEN <<StrVal(it.v)>>
                    ELSE IF it.t = "dict" THEN <<NameOf(it)>>
                    ELSE <<>>
         IN  one \o CollectNames(Tail(items))

\* the items of every category whose value is a list, categories in order
RECURSIVE FlattenCats(_)
FlattenCats(cats) ==
    IF cats = <<>> THEN <<>>
    ELSE (IF Head(cats).t = "list" THEN Head(cats).items ELSE <<>>)
         \o FlattenCats(Tail(cats))

RECURSIVE StripAll(_)
StripAll(names) ==
    IF names = <<>> THEN <<>>
    ELSE (IF strip(Head(names).v) # <<>> THEN <<strip(Head(names).v)>> ELSE <<>>)
         \o StripAll(Tail(names))

Returned(v) == [ok |-> TRUE, val |-> v]
Raised == [ok |-> FALSE]

\* [e.strip() for e in names if e.strip()]: e.strip() raises AttributeError
\* on a name that is no string
StripNonEmpty(names) ==
    IF \E i \in 1..Len(names) : names[i].t # "str" THEN Raised
    ELSE Returned(StripAll(names))

flat_entities(p) ==
    IF p.shape = "list" THEN StripNonEmpty(CollectNames(p.items))
    ELSE IF p.shape = "dict" THEN StripNonEmpty(CollectNames(FlattenCats(p.cats)))
    ELSE Returned(<<>>)

----------------------------------------------------------------------------
(* The normalizer's exhaustive input domain *)

Chars == {" ", "a"}
Strs == SeqsUpTo(Chars, MaxStrLen)
FieldVals == {Absent, NoneVal, NumVal} \cup {StrVal(s) : s \in Strs}
Items == {StrItem(s) : s \in Strs}
         \cup {DictItem(n, e) : n \in FieldVals, e \in FieldVals}
         \cup {OtherItem}
CatValues == {CatOther} \cup {CatList(l) : l \in SeqsUpTo(Items, 1)}
Payloads == {ListPayload(l) : l \in SeqsUpTo(Items, MaxItems)}
            \cup {MapPayload(c) : c \in SeqsUpTo(CatValues, MaxCats)}
            \cup {OtherPayload}

NoValue == [none |-> TRUE]

Idle == /\ top_k = DefaultTopK
        /\ entities = <<>>
        /\ results_groups = <<>>
        /\ matched_entities = <<>>
        /\ records = NoValue
        /\ graph_context = <<>>
        /\ ret = NoValue
        /\ lookupLog = <<>>
        /\ graphLog = <<>>
        /\ extractLog = "none"
        /\ lookupStat = [failed |-> 0, found |-> 0]

\* no call in flight on the shared instance, no conversation on the thread
NoCalls == calls = <<>>
NoConversation ==
    /\ service = "ok"
    /\ node = "idle"
    /\ turn = 0
    /\ state = NoValue
    /\ trace = NoValue

InitNorm == /\ pc = "norm_call"
            /\ raw \in Payloads
            /\ Idle
            /\ NoCalls
            /\ NoConversation

\* one evaluation of the property flat_entities on the payload
NormApply ==
    /\ pc = "norm_call"
    /\ LET r == flat_entities(raw)
       IN  /\ pc' = IF r.ok THEN "norm_returned" ELSE "norm_raised"
           /\ entities' = IF r.ok THEN r.val ELSE <<>>
    /\ UNCHANGED <<top_k, raw, results_groups, matched_entities, records, graph_context, ret,
                   lookupLog, graphLog, extractLog, lookupStat>>
    /\ UNCHANGED <<calls, graphVars>>

NextNorm == NormApply

SpecNorm == InitNorm /\ [][NextNorm]_vars

----------------------------------------------------------------------------
(* The collaborators of one search call: what they may return *)

Musk == <<"Musk">>
SpaceX == <<"SpaceX">>
Tesla == <<"Tesla">>
Mars == <<"Mars">>

\* the payloads the extraction chain returns in the search model: the three
\* formats its prompt asks for (lines 111-113), an empty list, a longer list
\* with a repeated entity, an object whose name is a number, a bare value
SamplePayloads ==
    { ListPayload(<<>>),
      ListPayload(<<StrItem(<<" ">> \o Musk)>>),
      ListPayload(<<DictItem(StrVal(SpaceX), StrVal(<<"company">>)),
                    DictItem(Absent, StrVal(Musk))>>),
      MapPayload(<<CatList(<<StrItem(Musk)>>),
                   CatOther,
                   CatList(<<DictItem(StrVal(Tesla), Absent)>>)>>),
      ListPayload(<<StrItem(Musk), StrItem(Mars), StrItem(Tesla), StrItem(Musk)>>),
      ListPayload(<<DictItem(NumVal, Absent)>>),
      OtherPayload }

\* the values of top_k a caller passes: negative, zero, one, the default
TopKs == {-1, 0, 1, DefaultTopK}

\* one (doc, score) pair of a vector lookup: the doc's metadata "name" (a
\* string or absent), its metadata "type" (absent here) and the score
Hits == [name : {Absent, StrVal(SpaceX)}, type : {Absent}, score : 1..MaxScore]

\* the store returns at most k pairs, nearest (highest score) first
HitLists == {h \in SeqsUpTo(Hits, K) :
                \A i \in 1..(Len(h) - 1) : h[i].score >= h[i + 1].score}

Pending == [t |-> "pending"]
\* the lookup raised: gather(return_exceptions=True) hands the exception back
LookupFailed == [t |-> "exception"]
\* the lookup returned a value that is no list of (doc, score) pairs
LookupMalformed == [t |-> "malformed"]
LookupHits(h) == [t |-> "hits", hits |-> h]
\* the lookup task was cancelled before it completed
LookupCancelled == [t |-> "cancelled"]
LookupOutcomes == {LookupFailed, LookupMalformed} \cup {LookupHits(h) : h \in HitLists}

\* one record of a graph response: a dict or a row object, whose target may
\* be missing
GraphRecord(kind, src, tgt) ==
    [kind |-> kind, source |-> StrVal(src), rel |-> StrVal(<<"FOUNDED">>), target |-> tgt]
RecordsFor(names) ==
    {GraphRecord("dict", names[1], t) : t \in {StrVal(Tesla), Absent}}
    \cup {GraphRecord("row", names[1], t) : t \in {StrVal(SpaceX), Absent}}
GraphFailed == [t |-> "exception"]
\* line 222: data is the response itself or its attribute `records`
GraphData(recs) == [t |-> "data", data |-> recs]
GraphAnswers(names) ==
    {GraphFailed} \cup {GraphData(r) : r \in SeqsUpTo(RecordsFor(names), MaxRecords)}

----------------------------------------------------------------------------
(* HybridSearchService._qdrant_match_entities *)

Min(a, b) == IF a < b THEN a ELSE b

\* lines 184-190: the entries one result group appends to all_results;
\* origin is entities[i]
RECURSIVE GroupEntries(_, _)
GroupEntries(hits, origin) ==
    IF hits = <<>> THEN <<>>
    ELSE <<[name |-> IF Head(hits).name.t = "absent" THEN origin ELSE Head(hits).name.v,
            score |-> Head(hits).score,
            type |-> IF Head(hits).type.t = "absent" THEN <<"unknown">> ELSE Head(hits).type.v]>>
         \o GroupEntries(Tail(hits), origin)

\* all_results with the loop left at the first failed group: break for continue
RECURSIVE all_results_break(_, _, _)
all_results_break(groups, ents, i) ==
    IF i > Len(groups) \/ groups[i].t # "hits" THEN <<>>
    ELSE GroupEntries(groups[i].hits, ents[i])
         \o all_results_break(groups, ents, i + 1)

\* all_results with the origin counted over the successful groups only: a
\* failed group shifts the entity of every later group
RECURSIVE all_results_shifted(_, _, _)
all_results_shifted(groups, ents, i) ==
    IF i > Len(groups) THEN <<>>
    ELSE (IF groups[i].t = "hits"
          THEN GroupEntries(groups[i].hits,
                            ents[i - Cardinality({j \in 1..(i - 1) : groups[j].t # "hits"})])
          ELSE <<>>)
         \o all_results_shifted(groups, ents, i + 1)

\* lines 177-190: all_results over the groups i..Len(groups), failed groups skipped
RECURSIVE all_results(_, _, _)
all_results(groups, ents, i) ==
    IF i > Len(groups) THEN <<>>
    ELSE (IF groups[i].t = "hits" THEN GroupEntries(groups[i].hits, ents[i]) ELSE <<>>)
         \o all_results(groups, ents, i + 1)

\* the last entry of a name wins, whatever its score
ReplacesAlways(r, kept) == TRUE

\* line 196: whether r replaces the entry kept for its name
Replaces(r, kept) == r.score > kept.score

\* lines 193-197: unique_results, as its values in insertion order
RECURSIVE unique_results(_, _)
unique_results(all, acc) ==
    IF all = <<>> THEN acc
    ELSE LET r == Head(all)
             at == {j \in 1..Len(acc) : acc[j].name = r.name}
         IN  IF at = {} THEN unique_results(Tail(all), Append(acc, r))
             ELSE LET j == CHOOSE j \in at : TRUE
                  IN  unique_results(Tail(all),
                                    IF Replaces(r, acc[j]) THEN [acc EXCEPT ![j] = r] ELSE acc)

\* sorted without reverse=True: ascending scores
RECURSIVE SortedAscending(_, _)
SortedAscending(rest, acc) ==
    IF rest = <<>> THEN acc
    ELSE LET r == Head(rest)
             n == Cardinality({j \in 1..Len(acc) : acc[j].score <= r.score})
         IN  SortedAscending(Tail(rest),
                             SubSeq(acc, 1, n) \o <<r>> \o SubSeq(acc, n + 1, Len(acc)))

\* sorted(..., key=score, reverse=True): stable, so equal scores keep their order
RECURSIVE SortedByScore(_, _)
SortedByScore(rest, acc) ==
    IF rest = <<>> THEN acc
    ELSE LET r == Head(rest)
             n == Cardinality({j \in 1..Len(acc) : acc[j].score >= r.score})
         IN  SortedByScore(Tail(rest),
                           SubSeq(acc, 1, n) \o <<r>> \o SubSeq(acc, n + 1, Len(acc)))

\* line 199: [:top_k]
Truncate(s, k) == Slice(s, k)

\* lines 177-199, given the gathered groups
MergeGroups(groups, ents, k) ==
    Truncate(SortedByScore(unique_results(all_results(groups, ents, 1), <<>>), <<>>), k)

\* a lookup for every entity: the [:3] forgotten
LookupTargetsUncapped(ents) == ents

\* line 172: the entities a lookup is launched for
LookupTargets(ents) == Slice(ents, FanOut)

----------------------------------------------------------------------------
(* HybridSearchService._neo4j_get_graph *)

NoRelationInfo == <<"NO_RELATION_INFO">>
NoEntity == <<"NO_ENTITY">>

\* line 205
entity_names(m) == [i \in 1..Len(Slice(m, FanOut)) |-> m[i].name]

\* lines 229-231: a dict is read with get (None when the key is missing), a
\* row with [] (KeyError when the key is missing)
FieldReadable(rec, f) == rec.kind = "dict" \/ f.t = "str"
FieldText(f) == IF f.t = "str" THEN f.v ELSE <<"None">>

\* line 232
RelationLine(rec) ==
    FieldText(rec.source) \o <<" -[">> \o FieldText(rec.rel) \o <<"]-> ">> \o FieldText(rec.target)

relations(recs) == [i \in 1..Len(recs) |-> RelationLine(recs[i])]

\* a response with no record gives the empty text
EmptyAnswerNoText == <<>>

\* line 223: what a response with no record gives
EmptyAnswerText == NoRelationInfo

\* a failed query gives the zero-record text
FailedQueryPlaceholder == NoRelationInfo

\* lines 235-237: what a failed query gives
FailedQueryText == <<>>

\* lines 215-237: the text for the store's response
GraphText(a) ==
    IF a.t = "exception" THEN FailedQueryText
    ELSE IF a.data = <<>> THEN EmptyAnswerText
    ELSE IF \E i \in 1..Len(a.data) :
                \E f \in {a.data[i].source, a.data[i].rel, a.data[i].target} :
                    ~FieldReadable(a.data[i], f)
         THEN FailedQueryText
    ELSE join(<<"\n">>, relations(a.data))

----------------------------------------------------------------------------
(* HybridSearchService.search *)

\* lines 143-145
EntityLine(m) ==
    <<"ENTITIES: ">> \o join(<<", ">>, entity_names(m))

\* the relations section put before the entity line
ContextTextRelationsFirst(m, g) ==
    join(<<"\n">>,
         (IF g # <<>> THEN <<(<<"GRAPH_RELATIONS:", "\n">> \o g)>> ELSE <<>>)
         \o (IF m # <<>> THEN <<EntityLine(m)>> ELSE <<>>))

\* lines 142-150
ContextText(m, g) ==
    join(<<"\n">>,
         (IF m # <<>> THEN <<EntityLine(m)>> ELSE <<>>)
         \o (IF g # <<>> THEN <<(<<"GRAPH_RELATIONS:", "\n">> \o g)>> ELSE <<>>))

SearchResult(c, e, m, g) ==
    [context_text |-> c, entities |-> e, matched_entities |-> m, graph_context |-> g]

\* the fallback with an empty graph_context instead of the marker
FallbackResultEmptyMarker == SearchResult(<<>>, <<>>, <<>>, <<>>)

\* lines 129-134
FallbackResult == SearchResult(<<>>, <<>>, <<>>, NoEntity)

Init == /\ pc = "start"
        /\ raw = NoValue
        /\ Idle
        /\ NoCalls
        /\ NoConversation

\* search(query, top_k) is called
Search(k) ==
    /\ pc = "start"
    /\ pc' = "extracting"
    /\ top_k' = k
    /\ UNCHANGED <<raw, entities, results_groups, matched_entities, records, graph_context, ret,
                   lookupLog, graphLog, extractLog, lookupStat>>
    /\ UNCHANGED <<calls, graphVars>>

\* line 158: the extraction chain raises
ExtractFail ==
    /\ pc = "extracting"
    /\ pc' = "extracted"
    /\ entities' = <<>>
    /\ extractLog' = "failed"
    /\ UNCHANGED <<top_k, raw, results_groups, matched_entities, records, graph_context, ret,
                   lookupLog, graphLog, lookupStat>>
    /\ UNCHANGED <<calls, graphVars>>

\* line 158: the extraction chain returns a payload
ExtractReturn(p) ==
    /\ pc = "extracting"
    /\ pc' = "normalizing"
    /\ raw' = p
    /\ UNCHANGED <<top_k, entities, results_groups, matched_entities, records, graph_context, ret,
                   lookupLog, graphLog, extractLog, lookupStat>>
    /\ UNCHANGED <<calls, graphVars>>

\* lines 159-164: flat_entities on the payload, inside the try
Normalize ==
    /\ pc = "normalizing"
    /\ LET r == flat_entities(raw)
       IN  /\ entities' = IF r.ok THEN r.val ELSE <<>>
           /\ extractLog' = IF r.ok THEN "ok" ELSE "raised"
    /\ raw' = NoValue
    /\ pc' = "extracted"
    /\ UNCHANGED <<top_k, results_groups, matched_entities, records, graph_context, ret,
                   lookupLog, graphLog, lookupStat>>
    /\ UNCHANGED <<calls, graphVars>>

\* lines 127-134
FastExit ==
    /\ pc = "extracted"
    /\ entities = <<>>
    /\ ret' = FallbackResult
    /\ pc' = "done"
    /\ UNCHANGED <<top_k, raw, entities, results_groups, matched_entities, records, graph_context,
                   lookupLog, graphLog, extractLog, lookupStat>>
    /\ UNCHANGED <<calls, graphVars>>

\* lines 136, 167-175: one lookup task per target, all in flight together
LaunchLookups ==
    /\ pc = "extracted"
    /\ entities # <<>>
    /\ results_groups' = [i \in 1..Len(LookupTargets(entities)) |-> Pending]
    /\ lookupLog' = lookupLog \o LookupTargets(entities)
    /\ pc' = "matching"
    /\ UNCHANGED <<top_k, raw, entities, matched_entities, records, graph_context, ret,
                   graphLog, extractLog, lookupStat>>
    /\ UNCHANGED <<calls, graphVars>>

\* one lookup task ends, in any order, with any outcome
LookupComplete(i, o) ==
    /\ pc = "matching"
    /\ i \in DOMAIN results_groups
    /\ results_groups[i] = Pending
    /\ results_groups' = [results_groups EXCEPT ![i] = o]
    /\ lookupStat' =
         [failed |-> lookupStat.failed + (IF o.t = "exception" THEN 1 ELSE 0),
          found |-> lookupStat.found + (IF o.t = "hits" /\ o.hits # <<>> THEN 1 ELSE 0)]
    /\ UNCHANGED <<pc, top_k, raw, entities, matched_entities, records, graph_context, ret,
                   lookupLog, graphLog, extractLog>>
    /\ UNCHANGED <<calls, graphVars>>

\* a cancellation that reaches the waiting call only: the lookup tasks that
\* have not completed are left running
CancelOuterOnly ==
    /\ pc = "matching"
    /\ pc' = "cancelled"
    /\ UNCHANGED <<top_k, raw, entities, results_groups, matched_entities, records,
                   graph_context, ret, lookupLog, graphLog, extractLog, lookupStat>>
    /\ UNCHANGED <<calls, graphVars>>

\* line 175: the call is cancelled (by its caller, or by the deadline the
\* caller wrapped it in) while it awaits the gather. Cancelling the gather
\* cancels every lookup task that has not completed, and the await raises
\* CancelledError, which no handler of the service catches
Cancel ==
    /\ pc = "matching"
    /\ results_groups' = [i \in DOMAIN results_groups |->
                             IF results_groups[i] = Pending THEN LookupCancelled
                             ELSE results_groups[i]]
    /\ pc' = "cancelled"
    /\ UNCHANGED <<top_k, raw, entities, matched_entities, records, graph_context, ret,
                   lookupLog, graphLog, extractLog, lookupStat>>
    /\ UNCHANGED <<calls, graphVars>>

AllComplete == \A i \in DOMAIN results_groups : results_groups[i] # Pending

\* the merge without the wait of the gather: it runs on the groups that have
\* completed so far
MergeEarly ==
    /\ pc = "matching"
    /\ IF \E i \in DOMAIN results_groups : results_groups[i].t = "malformed"
       THEN /\ pc' = "raised"
            /\ UNCHANGED matched_entities
       ELSE /\ pc' = "merged"
            /\ matched_entities' = MergeGroups(results_groups, entities, top_k)
    /\ UNCHANGED <<top_k, raw, entities, results_groups, records, graph_context, ret,
                   lookupLog, graphLog, extractLog, lookupStat>>
    /\ UNCHANGED <<calls, graphVars>>

\* lines 175-199 after the gather: a malformed group raises in the loop of
\* lines 184-190, which nothing in search catches
Merge ==
    /\ pc = "matching"
    /\ AllComplete
    /\ IF \E i \in DOMAIN results_groups : results_groups[i].t = "malformed"
       THEN /\ pc' = "raised"
            /\ UNCHANGED matched_entities
       ELSE /\ pc' = "merged"
            /\ matched_entities' = MergeGroups(results_groups, entities, top_k)
    /\ UNCHANGED <<top_k, raw, entities, results_groups, records, graph_context, ret,
                   lookupLog, graphLog, extractLog, lookupStat>>
    /\ UNCHANGED <<calls, graphVars>>

\* line 136: the matcher returns and its locals are gone
MatcherReturn ==
    /\ pc = "merged"
    /\ results_groups' = <<>>
    /\ pc' = "expanding"
    /\ UNCHANGED <<top_k, raw, entities, matched_entities, records, graph_context, ret,
                   lookupLog, graphLog, extractLog, lookupStat>>
    /\ UNCHANGED <<calls, graphVars>>

\* the expander without its guard on an empty matched_entities list: it queries the
\* store with no name, and the store answers with no record
ExpandNothingQueries ==
    /\ pc = "expanding"
    /\ matched_entities = <<>>
    /\ graphLog' = Append(graphLog, <<>>)
    /\ records' = GraphData(<<>>)
    /\ graph_context' = GraphText(GraphData(<<>>))
    /\ pc' = "assembling"
    /\ UNCHANGED <<top_k, raw, entities, results_groups, matched_entities, ret,
                   lookupLog, extractLog, lookupStat>>
    /\ UNCHANGED <<calls, graphVars>>

\* lines 139, 201-203: no matched_entities entity, no query
ExpandNothing ==
    /\ pc = "expanding"
    /\ matched_entities = <<>>
    /\ graph_context' = <<>>
    /\ pc' = "assembling"
    /\ UNCHANGED <<top_k, raw, entities, results_groups, matched_entities, records, ret,
                   lookupLog, graphLog, extractLog, lookupStat>>
    /\ UNCHANGED <<calls, graphVars>>

\* lines 139, 205-237: one query, and the text for its response
ExpandQuery ==
    /\ pc = "expanding"
    /\ matched_entities # <<>>
    /\ graphLog' = Append(graphLog, entity_names(matched_entities))
    /\ \E a \in GraphAnswers(entity_names(matched_entities)) :
          /\ records' = a
          /\ graph_context' = GraphText(a)
    /\ pc' = "assembling"
    /\ UNCHANGED <<top_k, raw, entities, results_groups, matched_entities, ret,
                   lookupLog, extractLog, lookupStat>>
    /\ UNCHANGED <<calls, graphVars>>

\* lines 141-154
Assemble ==
    /\ pc = "assembling"
    /\ ret' = SearchResult(ContextText(matched_entities, graph_context), entities,
                           matched_entities, graph_context)
    /\ pc' = "done"
    /\ UNCHANGED <<top_k, raw, entities, results_groups, matched_entities, records, graph_context,
                   lookupLog, graphLog, extractLog, lookupStat>>
    /\ UNCHANGED <<calls, graphVars>>

Next ==
    \/ \E k \in TopKs : Search(k)
    \/ ExtractFail
    \/ \E p \in SamplePayloads : ExtractReturn(p)
    \/ Normalize
    \/ FastExit
    \/ LaunchLookups
    \/ \E i \in 1..FanOut : \E o \in LookupOutcomes : LookupComplete(i, o)
    \/ Cancel
    \/ Merge
    \/ MatcherReturn
    \/ ExpandNothing
    \/ ExpandQuery
    \/ Assemble

Spec == Init /\ [][Next]_vars

----------------------------------------------------------------------------
(* Two search calls in flight on the one HybridSearchService instance.     *)
(* A step runs one call from one suspension point to the next: the awaits  *)
(* of lines 158 and 175 are the only ones at which the event loop can run  *)
(* another call (the graph query of line 219 is a blocking call).          *)

CallIds == {1, 2}

\* the locals of one call of search and of the matcher it calls
NewCall ==
    [pc |-> "start", top_k |-> DefaultTopK, entities |-> <<>>, results_groups |-> <<>>,
     completed |-> <<>>, records |-> NoValue, ret |-> NoValue]

\* what the collaborators return to the calls
CallTopKs == {1, DefaultTopK}
CallPayloads ==
    { ListPayload(<<>>),
      ListPayload(<<StrItem(Mars)>>),
      ListPayload(<<StrItem(Musk), StrItem(Tesla)>>) }
CallOutcomes ==
    {LookupFailed}
    \cup {LookupHits(<<h>>) : h \in [name : {Absent, StrVal(SpaceX)}, type : {Absent},
                                     score : {1, 2}]}
CallGraphAnswers(names) ==
    {GraphFailed, GraphData(<<GraphRecord("dict", names[1], StrVal(Tesla))>>)}

\* search's local `entities` kept in an attribute of the service instead:
\* a call reads what the other call's extraction has left there
EntitiesOfOther(c) ==
    LET d == CHOOSE d \in CallIds : d # c
    IN  IF calls[d].pc \in {"matching", "done", "raised"} THEN calls[d].entities
        ELSE calls[c].entities

\* lines 125, 151: search's local `entities`, as call c reads it
EntitiesOf(c) == calls[c].entities

\* the groups in the order in which the lookups completed
GatheredByCompletion(f) ==
    [j \in 1..Len(f.results_groups) |-> f.results_groups[f.completed[j]]]

\* line 175: gather returns the outcomes in the order of its tasks
Gathered(f) == f.results_groups

InitCalls ==
    /\ pc = "start"
    /\ raw = NoValue
    /\ Idle
    /\ calls = [c \in CallIds |-> NewCall]
    /\ NoConversation

\* lines 121-125: search(query, top_k) is called and awaits the extraction
CallSearch(c, k) ==
    /\ calls[c].pc = "start"
    /\ calls' = [calls EXCEPT ![c].pc = "extracting", ![c].top_k = k]
    /\ UNCHANGED <<searchVars, graphVars>>

\* lines 156-164 and 127-134 or 136, 167-175: the extraction ends for call
\* c (es is the list it gives); with no entity the call returns the
\* fallback, otherwise it launches its lookups and awaits the gather
CallExtracted(c, es) ==
    /\ calls[c].pc = "extracting"
    /\ calls' = [calls EXCEPT ![c] =
          IF es = <<>>
          THEN [@ EXCEPT !.pc = "done", !.ret = FallbackResult]
          ELSE [@ EXCEPT !.pc = "matching",
                         !.entities = es,
                         !.results_groups = [i \in 1..Len(LookupTargets(es)) |-> Pending]]]
    /\ UNCHANGED <<searchVars, graphVars>>

\* line 158: the extraction chain raises, or returns a payload
ExtractionResults ==
    {<<>>} \cup {flat_entities(p).val : p \in {q \in CallPayloads : flat_entities(q).ok}}

\* one lookup task of call c ends
CallLookupComplete(c, i, o) ==
    /\ calls[c].pc = "matching"
    /\ i \in DOMAIN calls[c].results_groups
    /\ calls[c].results_groups[i] = Pending
    /\ calls' = [calls EXCEPT ![c].results_groups[i] = o,
                              ![c].completed = Append(@, i)]
    /\ UNCHANGED <<searchVars, graphVars>>

\* lines 175-199 and 139-154: the gather of call c returns; the merge, the
\* graph query and the assembly run with no suspension
CallFinish(c) ==
    /\ calls[c].pc = "matching"
    /\ \A i \in DOMAIN calls[c].results_groups : calls[c].results_groups[i] # Pending
    /\ LET f == calls[c]
           m == MergeGroups(Gathered(f), f.entities, f.top_k)
       IN  IF m = <<>>
           THEN calls' = [calls EXCEPT
                    ![c].pc = "done",
                    ![c].ret = SearchResult(ContextText(m, <<>>), EntitiesOf(c), m, <<>>)]
           ELSE \E a \in CallGraphAnswers(entity_names(m)) :
                    calls' = [calls EXCEPT
                        ![c].pc = "done",
                        ![c].records = a,
                        ![c].ret = SearchResult(ContextText(m, GraphText(a)), EntitiesOf(c),
                                                m, GraphText(a))]
    /\ UNCHANGED <<searchVars, graphVars>>

NextCalls ==
    \/ \E c \in CallIds : \E k \in CallTopKs : CallSearch(c, k)
    \/ \E c \in CallIds : \E es \in ExtractionResults : CallExtracted(c, es)
    \/ \E c \in CallIds : \E i \in 1..FanOut : \E o \in CallOutcomes :
          CallLookupComplete(c, i, o)
    \/ \E c \in CallIds : CallFinish(c)

SpecCalls == InitCalls /\ [][NextCalls]_vars

----------------------------------------------------------------------------
(* The conversation graph: core/graph.py, core/state.py, core/nodes/       *)
(* retrieval.py, core/nodes/generation.py, driven as in core/test_graph.py *)

Unavailable == <<"RETRIEVAL_UNAVAILABLE">>
Apology == <<"APOLOGY">>
SystemError == <<"SYSTEM_ERROR">>

\* a message as the caller and the nodes build it: no id (0)
HumanMessage(c) == [role |-> "human", content |-> c, id |-> 0]
AIMessage(c) == [role |-> "ai", content |-> c, id |-> 0]

\* the id a message without one is given: one that no message of the list has
FreshId(left) ==
    1 + Cardinality({n \in 1..Len(left) : \E j \in 1..Len(left) : left[j].id >= n})

\* the channel without its reducer: an update replaces the list
messages_overwritten(left, right) ==
    [j \in 1..Len(right) |-> [right[j] EXCEPT !.id = Len(left) + j]]

\* state.py line 13: the reducer of the messages channel. A message of the
\* update takes the place of the message with its id, or is appended
RECURSIVE add_messages(_, _)
add_messages(left, right) ==
    IF right = <<>> THEN left
    ELSE LET m == IF Head(right).id = 0 THEN [Head(right) EXCEPT !.id = FreshId(left)]
                  ELSE Head(right)
             at == {j \in 1..Len(left) : left[j].id = m.id}
         IN  add_messages(IF at = {} THEN Append(left, m)
                          ELSE [left EXCEPT ![CHOOSE j \in at : TRUE] = m],
                          Tail(right))

\* the AgentState of a thread with no checkpoint: no key is set
EmptyState ==
    [has |-> {}, query |-> <<>>, messages |-> <<>>, entities |-> <<>>,
     graph_context |-> <<>>, rag_context |-> <<>>, answer |-> <<>>]

\* state.get(key, default)
StateGet(st, key, default) == IF key \in st.has THEN st[key] ELSE default

\* an update (the input of a turn, or what a node returns) applied to the
\* checkpointed state: messages through its reducer, every other key replaced
ApplyUpdate(st, upd) ==
    LET put(key) == IF key \in DOMAIN upd THEN upd[key] ELSE st[key]
    IN  [has |-> st.has \cup DOMAIN upd,
         query |-> put("query"),
         messages |-> IF "messages" \in DOMAIN upd THEN add_messages(st.messages, upd.messages)
                      ELSE st.messages,
         entities |-> put("entities"),
         graph_context |-> put("graph_context"),
         rag_context |-> put("rag_context"),
         answer |-> put("answer")]

\* retrieval.py lines 17-21
RetrievalUpdate(r) ==
    [entities |-> r.entities, graph_context |-> r.graph_context, rag_context |-> r.context_text]

\* the failure path setting the context only
RetrievalFailureContextOnly == [rag_context |-> Unavailable]

\* retrieval.py lines 24-28
RetrievalFailureUpdate ==
    [entities |-> <<>>, graph_context |-> <<>>, rag_context |-> Unavailable]

\* the queries of the turns, the results search returns, the answers of the chain
Queries == {<<"q1">>, <<"q2">>}
Answers == {<<"a1">>}
SampleResults ==
    { FallbackResult,
      LET m == <<[name |-> Musk, score |-> 1, type |-> <<"unknown">>]>>
          g == GraphText(GraphData(<<GraphRecord("dict", Musk, StrVal(Tesla))>>))
      IN  SearchResult(ContextText(m, g), <<Musk>>, m, g) }

\* what is recorded of a turn: how the search call and the chain ended, the
\* result search returned, how often each node ran, the messages and the
\* context the thread held when the turn began, what the chain was given
NewTrace(st) ==
    [search |-> "none", result |-> NoValue, llm |-> "none", retrieve |-> 0, generate |-> 0,
     before |-> st.messages, stale |-> st.rag_context, seen |-> NoValue]

\* hybrid_search.py lines 241-246: the handle is the service or None
InitGraph ==
    /\ pc = "start"
    /\ raw = NoValue
    /\ Idle
    /\ NoCalls
    /\ service \in {"ok", "none"}
    /\ node = "idle"
    /\ turn = 0
    /\ state = EmptyState
    /\ trace = NoValue

\* test_graph.py lines 13-18: a turn is started on the thread with the
\* query and the user's message
Invoke(q) ==
    /\ node = "idle"
    /\ turn < MaxTurns
    /\ state' = ApplyUpdate(state, [query |-> q, messages |-> <<HumanMessage(q)>>])
    /\ trace' = NewTrace(state)
    /\ turn' = turn + 1
    /\ node' = "retrieve"
    /\ UNCHANGED <<searchVars, calls, service>>

\* retrieval.py lines 13-21: search returned r
RetrieveReturned(r) ==
    /\ node = "retrieve"
    /\ service = "ok"
    /\ state' = ApplyUpdate(state, RetrievalUpdate(r))
    /\ trace' = [trace EXCEPT !.search = "returned", !.result = r, !.retrieve = @ + 1]
    /\ node' = "generate"
    /\ UNCHANGED <<searchVars, calls, service, turn>>

\* the node without its handler: the failure leaves the graph
RetrieveRaises ==
    /\ node = "retrieve"
    /\ trace' = [trace EXCEPT !.search = "raised", !.retrieve = @ + 1]
    /\ node' = "raised"
    /\ UNCHANGED <<searchVars, calls, service, turn, state>>

\* retrieval.py lines 22-28: search raised, or the handle is None and the
\* attribute access raised
RetrieveFailed ==
    /\ node = "retrieve"
    /\ state' = ApplyUpdate(state, RetrievalFailureUpdate)
    /\ trace' = [trace EXCEPT !.search = "raised", !.retrieve = @ + 1]
    /\ node' = "generate"
    /\ UNCHANGED <<searchVars, calls, service, turn>>

\* generation.py lines 39-41: what the chain is given
ChainInput(st) ==
    [context |-> StateGet(st, "rag_context", <<>>),
     messages |-> StateGet(st, "messages", <<>>),
     question |-> st.query]

\* generation.py lines 43-55: the chain answered a; graph.py line 19: END
GenerateAnswered(a) ==
    /\ node = "generate"
    /\ state' = ApplyUpdate(state, [answer |-> a, messages |-> <<AIMessage(a)>>])
    /\ trace' = [trace EXCEPT !.llm = "answered", !.generate = @ + 1,
                              !.seen = ChainInput(state)]
    /\ node' = "idle"
    /\ UNCHANGED <<searchVars, calls, service, turn>>

\* generation.py lines 56-61: the chain raised
GenerateFailed ==
    /\ node = "generate"
    /\ state' = ApplyUpdate(state, [answer |-> Apology, messages |-> <<AIMessage(SystemError)>>])
    /\ trace' = [trace EXCEPT !.llm = "raised", !.generate = @ + 1,
                              !.seen = ChainInput(state)]
    /\ node' = "idle"
    /\ UNCHANGED <<searchVars, calls, service, turn>>

RetrieveStep == (\E r \in SampleResults : RetrieveReturned(r)) \/ RetrieveFailed
GenerateStep == (\E a \in Answers : GenerateAnswered(a)) \/ GenerateFailed

NextGraph ==
    \/ \E q \in Queries : Invoke(q)
    \/ \E r \in SampleResults : RetrieveReturned(r)
    \/ RetrieveFailed
    \/ \E a \in Answers : GenerateAnswered(a)
    \/ GenerateFailed

SpecGraph == InitGraph /\ [][NextGraph]_vars

\* a node that has been entered runs to its return: the awaited search and
\* chain calls end, by returning or by raising
FairSpecGraph == SpecGraph /\ WF_vars(RetrieveStep) /\ WF_vars(GenerateStep)

----------------------------------------------------------------------------
(* The claims *)

SearchResultFields == {"context_text", "entities", "matched_entities", "graph_context"}

\* the call has passed the launch of its lookups
Launched == pc \in {"matching", "merged", "raised", "expanding", "assembling"}
            \/ (pc = "done" /\ entities # <<>>)

\* C1: whatever the extraction call, the vector lookups and the graph query
\* give (success, failure, an empty or a malformed result), search ends by
\* returning a result with the four fields and never raises to its caller.
C1_SearchNeverRaises ==
    /\ pc # "raised"
    /\ pc = "done" => DOMAIN ret = SearchResultFields

NoDuplicates(s) == \A i, j \in 1..Len(s) : s[i] = s[j] => i = j

\* C4: for every payload shape the normalizer returns, without raising, a
\* list whose elements are non-empty trimmed strings none of which occurs
\* twice.
C4_NormalizerClaim ==
    pc \in {"norm_returned", "norm_raised"} =>
        /\ pc = "norm_returned"
        /\ \A i \in 1..Len(entities) :
              /\ entities[i] # <<>>
              /\ Head(entities[i]) # " "
              /\ entities[i][Len(entities[i])] # " "
        /\ NoDuplicates(entities)

\* C5: one call of the matcher issues at most 3 lookups, one for each of the
\* first 3 entities in order and none for a later entity.
C5_AtMostThreeLookups ==
    /\ Len(lookupLog) <= 3
    /\ Launched =>
          /\ Len(lookupLog) = Min(Len(entities), 3)
          /\ \A i \in 1..Len(lookupLog) : lookupLog[i] = entities[i]
          /\ DOMAIN results_groups \subseteq 1..Len(lookupLog)

\* C5's case: four entities were extracted and three lookups were issued
C5_Witness ==
    /\ Len(entities) = 4
    /\ Len(lookupLog) = 3
    /\ pc = "done"

\* the neighbours the lookups returned, as <<lookup, position>>
Neighbours ==
    {n \in (DOMAIN results_groups) \X (1..K) :
        results_groups[n[1]].t = "hits" /\ n[2] <= Len(results_groups[n[1]].hits)}
NeighbourScore(n) == results_groups[n[1]].hits[n[2]].score
\* a neighbour's name: its payload name, or the entity its lookup was for
NeighbourName(n) ==
    LET h == results_groups[n[1]].hits[n[2]]
    IN  IF h.name.t = "absent" THEN entities[n[1]] ELSE h.name.v

\* a neighbour takes part in the merge: its name is in the ranking with a
\* score at least its own, or the ranking is full of entries that score at
\* least as high
TakesPart(n) ==
    \/ \E i \in 1..Len(matched_entities) :
          matched_entities[i].name = NeighbourName(n) /\ matched_entities[i].score >= NeighbourScore(n)
    \/ /\ Len(matched_entities) = top_k
       /\ \A i \in 1..Len(matched_entities) : matched_entities[i].score >= NeighbourScore(n)

\* at least one lookup failed and every other one returned a neighbour
OneFailedOthersFound ==
    /\ lookupStat.failed >= 1
    /\ lookupStat.found >= 1
    /\ lookupStat.failed + lookupStat.found = Len(lookupLog)

\* C3 as stated: when a lookup fails while the others succeed, every
\* neighbour of the successful lookups takes part in the merge and search
\* returns a populated result (non-empty matched_entities, not the fallback).
C3_Original ==
    /\ pc = "raised" => \E i \in DOMAIN results_groups : results_groups[i].t = "malformed"
    /\ (pc = "merged" /\ OneFailedOthersFound) =>
          /\ matched_entities # <<>>
          /\ \A n \in Neighbours : TakesPart(n)
    /\ (pc = "done" /\ OneFailedOthersFound) =>
          /\ ret.matched_entities # <<>>
          /\ ret.graph_context # <<"NO_ENTITY">>

\* C3, amended: the same for a call with top_k >= 1. A failed lookup never
\* makes the call raise; when a lookup fails while the others return
\* neighbours and top_k >= 1, every neighbour takes part in the merge and
\* search returns non-empty matched_entities, the extracted entities, a
\* non-empty context_text and a graph_context that is not the fallback's.
C3_PartialFailureIsolated ==
    /\ pc = "raised" => \E i \in DOMAIN results_groups : results_groups[i].t = "malformed"
    /\ (pc = "merged" /\ OneFailedOthersFound /\ top_k >= 1) =>
          /\ matched_entities # <<>>
          /\ \A n \in Neighbours : TakesPart(n)
    /\ (pc = "done" /\ OneFailedOthersFound /\ top_k >= 1) =>
          /\ ret.matched_entities # <<>>
          /\ ret.entities = entities
          /\ ret.context_text # <<>>
          /\ ret.graph_context # <<"NO_ENTITY">>

\* C3's case: of three lookups the first failed, the other two returned
\* neighbours, and the merge has run
C3_Witness ==
    /\ pc = "merged"
    /\ top_k >= 1
    /\ Len(results_groups) = 3
    /\ results_groups[1].t = "exception"
    /\ results_groups[2].t = "hits" /\ results_groups[2].hits # <<>>
    /\ results_groups[3].t = "hits" /\ results_groups[3].hits # <<>>
    /\ matched_entities # <<>>

UniqueNames(m) == \A i, j \in 1..Len(m) : m[i].name = m[j].name => i = j

\* C6: matched_entities holds no two entries with the same name, and the
\* entry of a name carries the maximum of the scores the lookups returned
\* for that name.
C6_UniqueNamesMaxScore ==
    /\ UniqueNames(matched_entities)
    /\ pc = "done" => UniqueNames(ret.matched_entities)
    /\ pc = "merged" =>
          \A i \in 1..Len(matched_entities) :
              /\ \E n \in Neighbours :
                    /\ NeighbourName(n) = matched_entities[i].name
                    /\ NeighbourScore(n) = matched_entities[i].score
              /\ \A n \in Neighbours :
                    NeighbourName(n) = matched_entities[i].name
                        => NeighbourScore(n) <= matched_entities[i].score

\* C6's case: a name came back with two different scores, the lower one
\* first, and is in matched_entities
C6_Witness ==
    /\ pc = "merged"
    /\ \E n1, n2 \in Neighbours :
          /\ n1[1] < n2[1]
          /\ NeighbourName(n1) = NeighbourName(n2)
          /\ NeighbourScore(n1) < NeighbourScore(n2)
          /\ \E i \in 1..Len(matched_entities) :
                matched_entities[i].name = NeighbourName(n1)
                /\ matched_entities[i].score = NeighbourScore(n2)

ScoresDescending(m) == \A i \in 1..(Len(m) - 1) : m[i].score >= m[i + 1].score

\* C7 as stated: for every integer top_k the returned matched_entities is
\* sorted by score, descending, and holds at most top_k entries.
C7_Original ==
    /\ pc = "merged" => ScoresDescending(matched_entities) /\ Len(matched_entities) <= top_k
    /\ pc = "done" =>
          /\ ScoresDescending(ret.matched_entities)
          /\ Len(ret.matched_entities) <= top_k

\* C7, amended: the returned matched_entities is sorted by score, descending,
\* for every integer top_k, and holds at most top_k entries for every
\* top_k >= 0.
C7_SortedAndTruncated ==
    /\ pc = "merged" =>
          /\ ScoresDescending(matched_entities)
          /\ top_k >= 0 => Len(matched_entities) <= top_k
    /\ pc = "done" =>
          /\ ScoresDescending(ret.matched_entities)
          /\ top_k >= 0 => Len(ret.matched_entities) <= top_k

\* C7's case: the lookups returned two names with different scores and
\* top_k = 1 kept the higher one only
C7_Witness ==
    /\ pc = "merged"
    /\ top_k = 1
    /\ Len(matched_entities) = 1
    /\ \E n \in Neighbours :
          /\ NeighbourName(n) # matched_entities[1].name
          /\ NeighbourScore(n) < matched_entities[1].score

\* C8: with no matched_entities entity (every lookup failed or returned nothing) the
\* expander returns the empty text and issues no query to the graph store.
C8_EmptyMatchedNoQuery ==
    /\ Len(graphLog) <= 1
    /\ \A i \in 1..Len(graphLog) : graphLog[i] # <<>>
    /\ (pc \in {"assembling", "done"} /\ entities # <<>> /\ matched_entities = <<>>) =>
          /\ graph_context = <<>>
          /\ graphLog = <<>>
          /\ records = NoValue

\* C8's case: every lookup failed and the expander has returned
C8_Witness ==
    /\ pc = "assembling"
    /\ matched_entities = <<>>
    /\ lookupStat.failed = Len(lookupLog)
    /\ top_k >= 1

\* C9 as stated: when the store answers with zero records the relation
\* result is empty, so graph_context is empty and context_text holds the
\* entity line only.
C9_Original ==
    (pc = "done" /\ records = GraphData(<<>>)) =>
        /\ ret.graph_context = <<>>
        /\ ret.context_text = EntityLine(ret.matched_entities)

\* C9, amended: when the store answers with zero records the expander
\* returns the fixed text "NO_RELATION_INFO": graph_context is that text and
\* context_text holds the entity line followed by the relations section
\* whose body is that text.
C9_EmptyAnswerPlaceholder ==
    /\ (pc = "assembling" /\ records = GraphData(<<>>)) =>
          graph_context = <<"NO_RELATION_INFO">>
    /\ (pc = "done" /\ records = GraphData(<<>>)) =>
          /\ ret.graph_context = <<"NO_RELATION_INFO">>
          /\ ret.context_text =
                EntityLine(ret.matched_entities)
                \o <<"\n", "GRAPH_RELATIONS:", "\n", "NO_RELATION_INFO">>

\* C9's case: the store answered a query with zero records and search returned
C9_Witness ==
    /\ pc = "done"
    /\ graphLog # <<>>
    /\ records = GraphData(<<>>)

\* C10: a failed graph query is absorbed in the expander: the relation result
\* is empty, and search returns the matched_entities computed before the
\* failure with a context_text that holds the entity line and no relations
\* section.
C10_GraphFailureAbsorbed ==
    records = GraphFailed =>
        /\ pc \in {"assembling", "done"}
        /\ graph_context = <<>>
        /\ matched_entities # <<>>
        /\ pc = "done" =>
              /\ ret.graph_context = <<>>
              /\ ret.matched_entities = matched_entities
              /\ ret.entities = entities
              /\ ret.context_text = EntityLine(matched_entities)

\* C10's case: the graph query failed and search returned
C10_Witness ==
    /\ pc = "done"
    /\ graphLog # <<>>
    /\ records = GraphFailed

\* the store answered with at least one record, each with its three fields
RelationsReturned ==
    /\ records # NoValue
    /\ records.t = "data"
    /\ records.data # <<>>
    /\ \A i \in 1..Len(records.data) :
          \A f \in {records.data[i].source, records.data[i].rel, records.data[i].target} :
              f.t = "str"

\* the names of the first 3 entries of m (all of them when m is shorter),
\* separated by ", "
RECURSIVE NamesListed(_, _)
NamesListed(m, i) ==
    IF i > Len(m) \/ i > 3 THEN <<>>
    ELSE (IF i > 1 THEN <<", ">> ELSE <<>>) \o m[i].name \o NamesListed(m, i + 1)

\* the records from the i-th on, each as source -[label]-> target, one per line
RECURSIVE RelationsListed(_, _)
RelationsListed(recs, i) ==
    IF i > Len(recs) THEN <<>>
    ELSE (IF i > 1 THEN <<"\n">> ELSE <<>>)
         \o recs[i].source.v \o <<" -[">> \o recs[i].rel.v \o <<"]-> ">> \o recs[i].target.v
         \o RelationsListed(recs, i + 1)

\* C11: when matched_entities and the relations are both non-empty,
\* context_text is the entity line, then the relations section; the entity
\* line lists the names of the first 3 matched entities (fewer when fewer
\* matched) in rank order, and graph_context holds every record as
\* source -[label]-> target, one per line, in the order of the response.
C11_ContextLayout ==
    (pc = "done" /\ RelationsReturned) =>
        /\ ret.matched_entities # <<>>
        /\ ret.graph_context = RelationsListed(records.data, 1)
        /\ ret.context_text =
              <<"ENTITIES: ">> \o NamesListed(ret.matched_entities, 1)
              \o <<"\n", "GRAPH_RELATIONS:", "\n">> \o ret.graph_context

\* C11's case: four entities matched, the store returned two different
\* records, and search returned
C11_Witness ==
    /\ pc = "done"
    /\ RelationsReturned
    /\ Len(ret.matched_entities) = 4
    /\ Len(records.data) = 2
    /\ records.data[1].target # records.data[2].target

\* the stage of the call at a position: Extracting 1, Matching 2,
\* Expanding 3, Assembling 4, Done 5 (0 before the call)
StageAt(p) ==
    CASE p = "start" -> 0
      [] p \in {"extracting", "normalizing", "extracted"} -> 1
      [] p \in {"matching", "merged", "raised", "cancelled"} -> 2
      [] p = "expanding" -> 3
      [] p = "assembling" -> 4
      [] p = "done" -> 5

\* one step keeps the stage, enters the next one, or is the fast exit from
\* Extracting to Done
StageOrder ==
    \/ StageAt(pc') = StageAt(pc)
    \/ StageAt(pc') = StageAt(pc) + 1
    \/ StageAt(pc) = 1 /\ StageAt(pc') = 5 /\ entities = <<>>

\* lookups are issued only when the extraction has finished; the merge runs
\* only when every launched lookup has completed; the graph query is issued
\* only after the matcher returned and only when none was issued before
StageEffects ==
    /\ lookupLog' # lookupLog =>
          /\ extractLog # "none"
          /\ lookupLog = <<>>
          /\ pc = "extracted"
    /\ pc' \in {"merged", "raised"} =>
          /\ Len(results_groups) = Len(lookupLog)
          /\ AllComplete
          /\ results_groups' = results_groups
    /\ matched_entities' # matched_entities => pc' = "merged"
    /\ graphLog' # graphLog =>
          /\ pc = "expanding"
          /\ graphLog = <<>>
          /\ Len(graphLog') = 1

\* C14: within one search call the stages run in the order Extracting,
\* Matching, Expanding, Assembling, Done: no lookup is issued before the
\* extraction has finished, the merge and the graph query happen only after
\* every launched lookup has completed (with a result or a failure), and
\* the graph query is issued at most once.
C14_StageOrder ==
    /\ [](Len(graphLog) <= 1)
    /\ []((graphLog # <<>> \/ pc = "merged") => (Launched /\ AllComplete))
    /\ [][StageOrder /\ StageEffects]_vars

\* C14's case: three lookups were launched, one of them failed, the merge
\* and one graph query ran, and the call is done
C14_Witness ==
    /\ pc = "done"
    /\ Len(lookupLog) = 3
    /\ lookupStat.failed >= 1
    /\ Len(graphLog) = 1

\* the text of record i as one relation: source -[label]-> target
RelationOf(rec) ==
    rec.source.v \o <<" -[">> \o rec.rel.v \o <<"]-> ">> \o rec.target.v

AllFieldsPresent(rec) ==
    rec.source.t = "str" /\ rec.rel.t = "str" /\ rec.target.t = "str"

\* s occurs in text as a run of consecutive tokens
OccursIn(s, text) ==
    \E a \in 1..(Len(text) - Len(s) + 1) : SubSeq(text, a, a + Len(s) - 1) = s

\* the number of lines of a non-empty text
LineCount(text) == 1 + Cardinality({i \in 1..Len(text) : text[i] = "\n"})

\* C16: a record in which source, label or target cannot be read does not
\* make the expander raise and does not discard the response: graph_context
\* has one line for every record of the response, and every record whose
\* fields are all readable appears in it as source -[label]-> target.
C16_UnreadableFieldKept ==
    (pc \in {"assembling", "done"} /\ records # NoValue /\ records.t = "data"
        /\ records.data # <<>>) =>
        /\ graph_context # <<>>
        /\ LineCount(graph_context) = Len(records.data)
        /\ \A i \in 1..Len(records.data) :
              AllFieldsPresent(records.data[i])
                  => OccursIn(RelationOf(records.data[i]), graph_context)

\* the neighbours whose payload has no name
Nameless == {n \in Neighbours : results_groups[n[1]].hits[n[2]].name.t = "absent"}

\* C17: a neighbour whose payload has no name is entered under the entity
\* its own lookup was for, whichever lookups failed: every entry of
\* matched_entities is a named neighbour under its payload name or a
\* nameless neighbour under the entity of its lookup, and, when the ranking
\* was not cut, every nameless neighbour has the entry of its lookup's
\* entity, with a score at least its own.
C17_NamelessTakesOwnEntity ==
    pc = "merged" =>
        /\ \A i \in 1..Len(matched_entities) :
              \E n \in Neighbours :
                  /\ results_groups[n[1]].hits[n[2]].score = matched_entities[i].score
                  /\ IF n \in Nameless
                     THEN matched_entities[i].name = lookupLog[n[1]]
                     ELSE matched_entities[i].name = results_groups[n[1]].hits[n[2]].name.v
        /\ Len(matched_entities) < top_k =>
              \A n \in Nameless :
                  \E i \in 1..Len(matched_entities) :
                      /\ matched_entities[i].name = lookupLog[n[1]]
                      /\ matched_entities[i].score >= results_groups[n[1]].hits[n[2]].score

\* C17's case: the first lookup failed, the second returned a nameless
\* neighbour, and the ranking holds it under the second entity
C17_Witness ==
    /\ pc = "merged"
    /\ Len(results_groups) >= 2
    /\ results_groups[1].t = "exception"
    /\ <<2, 1>> \in Nameless
    /\ entities[1] # entities[2]
    /\ \E i \in 1..Len(matched_entities) : matched_entities[i].name = entities[2]

SearchAlone(f) ==
    IF f.entities = <<>> THEN FallbackResult
    ELSE LET m == MergeGroups(f.results_groups, f.entities, f.top_k)
             g == IF m = <<>> THEN <<>> ELSE GraphText(f.records)
         IN  SearchResult(ContextText(m, g), f.entities, m, g)

IsPrefix(a, b) == Len(a) <= Len(b) /\ SubSeq(b, 1, Len(a)) = a

\* a turn has run to its end
TurnEnded == node = "idle" /\ turn > 0

\* C13: on one thread the message history is append-only: no step removes
\* or replaces a message; starting a turn appends the user's message, the
\* generate node appends exactly one AI message after it, so n turns leave
\* 2n messages, user and AI in turn; and the generate node of turn n is
\* given the messages of the turns before it followed by the user's message
\* of turn n.
C13_HistoryAppendOnly ==
    /\ [][IsPrefix(state.messages, state'.messages)]_vars
    /\ [][(node = "idle" /\ node' = "retrieve") =>
            /\ Len(state'.messages) = Len(state.messages) + 1
            /\ state'.messages[Len(state'.messages)].role = "human"
            /\ state'.messages[Len(state'.messages)].content = state'.query]_vars
    /\ [][(node = "generate" /\ node' # "generate") =>
            /\ Len(state'.messages) = Len(state.messages) + 1
            /\ state'.messages[Len(state'.messages)].role = "ai"]_vars
    /\ [](\A i, j \in 1..Len(state.messages) :
            state.messages[i].id = state.messages[j].id => i = j)
    /\ [](TurnEnded =>
            /\ Len(state.messages) = 2 * turn
            /\ \A i \in 1..turn :
                  /\ state.messages[2 * i - 1].role = "human"
                  /\ state.messages[2 * i].role = "ai"
            /\ Len(trace.before) = 2 * (turn - 1)
            /\ trace.seen.messages = trace.before \o <<state.messages[2 * turn - 1]>>
            /\ trace.seen.messages = SubSeq(state.messages, 1, 2 * turn - 1)
            /\ trace.seen.question = state.messages[2 * turn - 1].content)

\* C13's case: two turns have run on the thread, the first one's
\* generation failed, and the history holds the four messages
C13_Witness ==
    /\ TurnEnded
    /\ turn = 2
    /\ Len(state.messages) = 4
    /\ state.messages[2].content = SystemError
    /\ state.messages[4].content # SystemError
    /\ Len(trace.seen.messages) = 3

\* C19: every turn runs retrieve once, then generate once, then ends,
\* whatever fails. When search raises or the handle is None, retrieve_node
\* returns entities = [], graph_context = "" and the context
\* "RETRIEVAL_UNAVAILABLE" and the graph goes on to generate; when the chain
\* fails, generation_node sets the answer "APOLOGY"; no node raises, and
\* every turn that was started ends with an answer set.
C19_TurnAlwaysEnds ==
    /\ [](node \in {"idle", "retrieve", "generate"})
    /\ [](node = "retrieve" => (trace.retrieve = 0 /\ trace.generate = 0))
    /\ [](node = "generate" => (trace.retrieve = 1 /\ trace.generate = 0))
    /\ [](TurnEnded =>
            /\ trace.retrieve = 1
            /\ trace.generate = 1
            /\ "answer" \in state.has
            /\ state.answer # <<>>)
    /\ []((service = "none" /\ node = "generate") => trace.search = "raised")
    /\ []((node = "generate" /\ trace.search = "raised") =>
            /\ state.entities = <<>>
            /\ state.graph_context = <<>>
            /\ state.rag_context = <<"RETRIEVAL_UNAVAILABLE">>)
    /\ []((TurnEnded /\ trace.llm = "raised") => state.answer = <<"APOLOGY">>)
    /\ \A n \in 1..MaxTurns :
          (turn = n /\ node = "retrieve") ~> (turn = n /\ node = "idle" /\ state.answer # <<>>)

\* C19's case: the handle is None, the chain failed too, and the turn ended
C19_Witness ==
    /\ service = "none"
    /\ TurnEnded
    /\ trace.search = "raised"
    /\ trace.llm = "raised"
    /\ state.answer = <<"APOLOGY">>

\* what the retrieval of the current turn gave
CurrentRetrieval ==
    IF trace.search = "returned"
    THEN [entities |-> trace.result.entities,
          graph_context |-> trace.result.graph_context,
          rag_context |-> trace.result.context_text]
    ELSE [entities |-> <<>>, graph_context |-> <<>>,
          rag_context |-> <<"RETRIEVAL_UNAVAILABLE">>]

\* C20: the retrieval fields the generate node sees in turn n are those of
\* the retrieval of turn n, on its success path and on its failure path:
\* entities, graph_context and rag_context are all three overwritten, and
\* the context the chain is given is the one of this turn.
C20_ContextOfThisTurn ==
    /\ node = "generate" =>
          /\ trace.search # "none"
          /\ {"entities", "graph_context", "rag_context"} \subseteq state.has
          /\ state.entities = CurrentRetrieval.entities
          /\ state.graph_context = CurrentRetrieval.graph_context
          /\ state.rag_context = CurrentRetrieval.rag_context
    /\ TurnEnded => trace.seen.context = CurrentRetrieval.rag_context

\* C20's case: the first turn left a populated context and entities on the
\* thread, the retrieval of the second turn failed, and generate is next
C20_Witness ==
    /\ node = "generate"
    /\ turn = 2
    /\ trace.stale \notin {<<>>, <<"RETRIEVAL_UNAVAILABLE">>}
    /\ trace.search = "raised"
    /\ state.rag_context = <<"RETRIEVAL_UNAVAILABLE">>

====
